---- MODULE Spec2Model ----
(***************************************************************************)
(* bundrop: one file served over HTTP under a random path (src/index.ts),  *)
(* the cloudflared tunnel discovery (runCloudFlaredTunnel) and the         *)
(* per-client request log (logRequest).                                    *)
(*                                                                         *)
(* JavaScript strings are sequences of one-character strings.              *)
(***************************************************************************)
EXTENDS Integers, Sequences, FiniteSets, TLC

\* ------------------------------------------------------------------------
\* Bounds of the model
\* ------------------------------------------------------------------------

\* Math.random() returns m / 2^RandBits for 0 <= m < 2^RandBits.
RandBits == 11

\* Chunks the tunnel subprocess writes in one run (both streams together).
MaxWrites == 3

\* Requests handled by the server in one run.
MaxRequests == 3

\* Largest size in bytes of the served file.
MaxFileSize == 1
MaxSizeSteps == 40

\* ------------------------------------------------------------------------
\* Program constants
\* ------------------------------------------------------------------------

\* Number.prototype.toString(36) and String.prototype.substring(2, 7).
Radix == 36
SubstringStart == 2
SubstringEnd == 7

DefaultPort == 8000

\* The argument of toFixed at line 379.
SizeDecimals == 2

\* ------------------------------------------------------------------------
\* Strings
\* ------------------------------------------------------------------------

Digits36 ==
  << "0","1","2","3","4","5","6","7","8","9","a","b","c","d","e","f","g","h",
     "i","j","k","l","m","n","o","p","q","r","s","t","u","v","w","x","y","z" >>

UpperCase ==
  { "A","B","C","D","E","F","G","H","I","J","K","L","M","N","O","P","Q","R",
    "S","T","U","V","W","X","Y","Z" }

\* [a-zA-Z0-9]
Alphanumeric == { Digits36[i] : i \in 1..Len(Digits36) } \cup UpperCase

\* The character class [a-zA-Z0-9-] of the tunnel URL pattern.
LabelChars == Alphanumeric \cup { "-" }

\* "https://"
HttpsPrefix == << "h","t","t","p","s",":","/","/" >>

\* ".trycloudflare.com"
TryCloudflareSuffix ==
  << ".","t","r","y","c","l","o","u","d","f","l","a","r","e",".","c","o","m" >>

Min(S) == CHOOSE x \in S : \A y \in S : x <= y
Max(S) == CHOOSE x \in S : \A y \in S : x >= y

\* A JavaScript value that is a string or null.
Null == [isNull |-> TRUE, str |-> << >>]
Str(s) == [isNull |-> FALSE, str |-> s]

\* String.prototype.substring(from, to) with 0-based indices, 0 <= from <= to.
Substring(s, from, to) ==
  SubSeq(s, Min({from, Len(s)}) + 1, Min({to, Len(s)}))

\* ------------------------------------------------------------------------
\* output.match(/https:\/\/[a-zA-Z0-9-]+\.trycloudflare\.com/)
\* ------------------------------------------------------------------------

\* The ends j of a label starting right after the prefix at i such that the
\* suffix follows the label.
LabelEnds(s, i) ==
  { j \in (i + Len(HttpsPrefix))..Len(s) :
      /\ \A k \in (i + Len(HttpsPrefix))..j : s[k] \in LabelChars
      /\ j + Len(TryCloudflareSuffix) <= Len(s)
      /\ SubSeq(s, j + 1, j + Len(TryCloudflareSuffix)) = TryCloudflareSuffix }

MatchesAt(s, i) ==
  /\ i + Len(HttpsPrefix) - 1 <= Len(s)
  /\ SubSeq(s, i, i + Len(HttpsPrefix) - 1) = HttpsPrefix
  /\ LabelEnds(s, i) # {}

\* The leftmost match, its label taken greedily; Null when nothing matches.
UrlMatch(s) ==
  LET starts == { i \in 1..Len(s) : MatchesAt(s, i) }
  IN  IF starts = {} THEN Null
      ELSE LET i == Min(starts)
               j == Max(LabelEnds(s, i))
           IN  Str(SubSeq(s, i, j + Len(TryCloudflareSuffix)))

\* ------------------------------------------------------------------------
\* Math.random().toString(36).substring(2, 7)
\* ------------------------------------------------------------------------

RECURSIVE Pow2(_)
Pow2(n) == IF n = 0 THEN 1 ELSE 2 * Pow2(n - 1)

\* The base-36 digits of the fraction num / den, 0 <= num < den, den a power
\* of two: the expansion is finite and toString(36) prints all of it.
RECURSIVE FractionDigits(_, _)
FractionDigits(num, den) ==
  IF num = 0 THEN << >>
  ELSE << Digits36[((num * Radix) \div den) + 1] >>
         \o FractionDigits((num * Radix) % den, den)

\* (num / den).toString(36): "0" for zero, "0." and the digits otherwise.
ToString36(num, den) ==
  IF num = 0 THEN << "0" >>
  ELSE << "0", "." >> \o FractionDigits(num, den)

GenerateUrlPath(num, den) ==
  Substring(ToString36(num, den), SubstringStart, SubstringEnd)

\* ------------------------------------------------------------------------
\* The command line (lines 36-103); an argument is the sequence of its
\* "/"-separated components, so "-p" is <<"-p">> and "dir/file.zip" is
\* <<"dir", "file.zip">>; the empty sequence is a missing argument.
\* ------------------------------------------------------------------------

\* Number(val) of the arguments that are numerals; every other one is NaN.
NumberOf(val) ==
  CASE val = << "3000" >> -> 3000
    [] val = << "99999" >> -> 99999
    [] OTHER -> -1

IsNaN(val) == val \notin { << "3000" >>, << "99999" >> }

ServedPath == << "dir", "file.zip" >>

ArgLists ==
  { << >>,
    << ServedPath >>,
    << << "--tunnel" >>, << "-d" >>, << "-p" >>, << "3000" >>, ServedPath >>,
    << ServedPath, << "--port" >>, << "99999" >> >>,
    << << "-p" >>, ServedPath >>,
    << ServedPath, << "-p" >> >>,
    << << "-t" >> >>,
    << << "-h" >>, ServedPath >>,
    << << "-v" >> >>,
    << << "help" >> >>,
    << << "version" >> >>,
    << << "gone.txt" >> >> }

ParsedDefaults ==
  [exit |-> -1, port |-> DefaultPort, filePath |-> << >>,
   debug |-> FALSE, autoTunnel |-> FALSE]

\* The loop of lines 52-80 from index i (1-based) on; exit is the code of
\* process.exit, or -1 while the process goes on.
RECURSIVE ParseLoop(_, _, _)
ParseLoop(a, i, st) ==
  IF i > Len(a) THEN st
  ELSE LET arg == a[i] IN
    IF arg \in { << "-h" >>, << "--help" >> } THEN [st EXCEPT !.exit = 0]
    ELSE IF arg \in { << "-p" >>, << "--port" >> } THEN
      LET val == IF i + 1 <= Len(a) THEN a[i + 1] ELSE << >> IN
      IF val = << >> \/ IsNaN(val) THEN [st EXCEPT !.exit = 1]
      ELSE ParseLoop(a, i + 2, [st EXCEPT !.port = NumberOf(val)])
    ELSE IF arg \in { << "-d" >>, << "--debug" >> } THEN
      ParseLoop(a, i + 1, [st EXCEPT !.debug = TRUE])
    ELSE IF arg \in { << "-t" >>, << "--tunnel" >> } THEN
      ParseLoop(a, i + 1, [st EXCEPT !.autoTunnel = TRUE])
    ELSE IF arg \in { << "-v" >>, << "---version" >> } THEN
      [st EXCEPT !.exit = 0]
    ELSE ParseLoop(a, i + 1, [st EXCEPT !.filePath = arg])

\* Lines 36-103: the usage check, the loop, the missing path and the
\* "help" and "version" file names.
ParseArgs(a) ==
  IF Len(a) < 1 THEN [ParsedDefaults EXCEPT !.exit = 1]
  ELSE LET st == ParseLoop(a, 1, ParsedDefaults) IN
    IF st.exit # -1 THEN st
    ELSE IF st.filePath = << >> THEN [st EXCEPT !.exit = 1]
    ELSE IF st.filePath \in { << "help" >>, << "version" >> }
      THEN [st EXCEPT !.exit = 0]
    ELSE st

\* path.basename(filePath)
Basename(path) == << path[Len(path)] >>

\* ------------------------------------------------------------------------
\* The request: new URL(req.url).pathname, the client key, the routes
\* ------------------------------------------------------------------------

Download == << "d","o","w","n","l","o","a","d" >>
Dot == << "." >>
DotDot == << ".", "." >>
Empty == << >>

\* The pathname of a request target given as its segments ("/a/b" is
\* <<a, b>>, "/" is <<Empty>>, "/a/" is <<a, Empty>>): the URL parser drops
\* a "." segment, lets a ".." segment remove the segment before it, and
\* leaves an empty last segment when the target ends in either.
RECURSIVE PathnameFrom(_, _, _)
PathnameFrom(raw, i, acc) ==
  IF i > Len(raw) THEN acc
  ELSE LET seg == raw[i]
           last == (i = Len(raw))
           popped == IF acc = << >> THEN acc ELSE SubSeq(acc, 1, Len(acc) - 1)
       IN  IF seg = DotDot
             THEN PathnameFrom(raw, i + 1,
                               IF last THEN Append(popped, Empty) ELSE popped)
           ELSE IF seg = Dot
             THEN PathnameFrom(raw, i + 1,
                               IF last THEN Append(acc, Empty) ELSE acc)
           ELSE PathnameFrom(raw, i + 1, Append(acc, seg))

Pathname(raw) == PathnameFrom(raw, 1, << >>)

\* `/download/${urlPath}` and `/${urlPath}` as pathnames.
DownloadRoute(token) == << Download, token >>
InfoRoute(token) == << token >>

\* Routes chosen by the start of the pathname instead of all of it.
RouteByPrefix(pathname, token) ==
  IF Len(pathname) >= 2 /\ SubSeq(pathname, 1, 2) = DownloadRoute(token)
    THEN "download"
  ELSE IF Len(pathname) >= 1 /\ SubSeq(pathname, 1, 1) = InfoRoute(token)
    THEN "info"
  ELSE "notfound"

\* Lines 366-502: the route a pathname takes.
Route(pathname, token) ==
  IF pathname = DownloadRoute(token) THEN "download"
  ELSE IF pathname = InfoRoute(token) THEN "info"
  ELSE "notfound"

\* server.requestIP(req) is null or a SocketAddress object {address, family,
\* port}; the object has no toString of its own.
NoSocket == [present |-> FALSE, address |-> << >>]
Socket(a) == [present |-> TRUE, address |-> a]

ObjectToString ==
  << "[","o","b","j","e","c","t"," ","O","b","j","e","c","t","]" >>

Unknown == << "u","n","k","n","o","w","n" >>

\* server.requestIP(req)?.toString() || "unknown"
RequestIP(sock) == IF sock.present THEN ObjectToString ELSE Unknown

\* req.headers.get("user-agent") || "unknown": a header that is absent
\* (Null) or empty gives "unknown".
RequestUA(header) ==
  IF header.isNull \/ header.str = << >> THEN Unknown ELSE header.str

\* `${ip}::${ua}`
ClientKey(ip, ua) == ip \o << ":", ":" >> \o ua

\* A record that starts again at 1 instead of counting on.
NextInfoNoIncrement(map, ip, ua) == [ip |-> ip, ua |-> ua, count |-> 1]

\* Lines 340-343: the record logRequest stores for (ip, ua).
NextInfo(map, ip, ua) ==
  LET key == ClientKey(ip, ua) IN
  IF key \in DOMAIN map
    THEN [map[key] EXCEPT !.count = map[key].count + 1]
    ELSE [ip |-> ip, ua |-> ua, count |-> 1]

\* clientMap.set(key, info)
MapSet(map, key, info) ==
  [k \in DOMAIN map \cup {key} |-> IF k = key THEN info ELSE map[k]]

\* Number.prototype.toString() of a non-negative integer.
DecimalDigits == << "0","1","2","3","4","5","6","7","8","9" >>
RECURSIVE Decimal(_)
Decimal(n) ==
  IF n < 10 THEN << DecimalDigits[n + 1] >>
  ELSE Decimal(n \div 10) \o << DecimalDigits[(n % 10) + 1] >>

RECURSIVE PadZeros(_, _)
PadZeros(digits, len) ==
  IF Len(digits) >= len THEN digits ELSE PadZeros(<< "0" >> \o digits, len)

\* The digits of n with a point before the last f of them.
PointBefore(n, f) ==
  LET digits == PadZeros(Decimal(n), f + 1) IN
  SubSeq(digits, 1, Len(digits) - f) \o << "." >>
    \o SubSeq(digits, Len(digits) - f + 1, Len(digits))

\* A toFixed that cuts the digits after the f-th off.
ToFixedTruncating(num, den, f) == PointBefore((num * 10^f) \div den, f)

\* (num / den).toFixed(f) for num >= 0 and den a power of two (the
\* quotient is then exact as a double): the integer n with n / 10^f
\* nearest to the number, the larger one of two, written with a point
\* before its last f digits.
ToFixed(num, den, f) ==
  PointBefore((2 * num * 10^f + den) \div (2 * den), f)

\* Line 379.
BytesPerMB == 1024 * 1024
FileSizeMB(size) == ToFixed(size, BytesPerMB, SizeDecimals)

\* The Response of the download route (lines 367-374): status 200 by
\* default, Content-Length from the size taken at startup, and as body the
\* file as it is on disk when the request is handled (fileBytes is the
\* number of bytes that body holds, fileReadable whether it can be read).
\* fileName is the name in the Content-Disposition header.
DownloadResponse(name, size, file) ==
  [route |-> "download", status |-> 200, body |-> "file",
   contentType |-> "application/octet-stream",
   contentLength |-> size,
   fileBytes |-> IF file.readable THEN file.size ELSE 0,
   fileReadable |-> file.readable,
   fileName |-> name, sizeText |-> << >>]

\* Lines 378-497: the page shows the file name (lines 386 and 482) and
\* the size in MB (line 483).
InfoResponse(name, size) ==
  [route |-> "info", status |-> 200, body |-> "html",
   contentType |-> "text/html",
   contentLength |-> -1, fileBytes |-> 0, fileReadable |-> TRUE,
   fileName |-> name, sizeText |-> FileSizeMB(size) \o << " ","M","B" >>]

\* Lines 499-502.
NotFoundResponse ==
  [route |-> "notfound", status |-> 404, body |-> "text",
   contentType |-> "text/plain",
   contentLength |-> -1, fileBytes |-> 0, fileReadable |-> TRUE,
   fileName |-> << >>, sizeText |-> << >>]

NoResponse ==
  [route |-> "none", status |-> 0, body |-> "none", contentType |-> "",
   contentLength |-> -1, fileBytes |-> 0, fileReadable |-> TRUE,
   fileName |-> << >>, sizeText |-> << >>]

Respond(pathname, token, name, size, file) ==
  LET r == Route(pathname, token) IN
  IF r = "download" THEN DownloadResponse(name, size, file)
  ELSE IF r = "info" THEN InfoResponse(name, size)
  ELSE NotFoundResponse

\* Request targets tried against a token: the two routes, their
\* neighbours, and targets the URL parser rewrites.
Other == << "x" >>
Targets(token) ==
  { << token >>, << Download, token >>,
    << Empty >>, << Download >>, << token, Empty >>,
    << Download, token, Empty >>,
    << Other, token >>, << token \o Other >>, << Download, token \o Other >>,
    << Other, DotDot, token >>, << Download, Dot, token >>,
    << Download, token, DotDot >> }

SocketAddresses == { << "1",".","2",".","3",".","4" >>, << ":",":","1" >> }
Sockets == { NoSocket } \cup { Socket(a) : a \in SocketAddresses }
UserAgents == { Null, Str(<< >>), Str(<< "c","u","r","l" >>) }

\* ------------------------------------------------------------------------
\* What the tunnel subprocess may write
\* ------------------------------------------------------------------------

\* "https://a-b.trycloudflare.com" and the two chunks of one split of it.
UrlAHead == HttpsPrefix \o << "a" >>
UrlATail == << "-", "b" >> \o TryCloudflareSuffix
UrlA == UrlAHead \o UrlATail

\* "https://c.trycloudflare.com"
UrlB == HttpsPrefix \o << "c" >> \o TryCloudflareSuffix

\* A piece of log text.
LogText == << "I", "N", "F" >>

Chunks == { UrlAHead, UrlATail, UrlB, LogText }

Streams == { "stdout", "stderr" }

\* Exit codes of a subprocess that ends on its own, and of one ended by the
\* signal of proc.kill().
ExitCodes == { 0, 1 }
KilledCodes == { 143 }

\* ------------------------------------------------------------------------
\* State
\* ------------------------------------------------------------------------

VARIABLES
  pc,            \* "start", "parsed", "statted", "bound", "serving",
                 \* "exited"
  exitCode,      \* the code of process.exit, -1 while the process runs
  args,          \* process.argv.slice(2)
  rand,          \* Math.random() is rand / 2^RandBits
  disk,          \* the served file on disk: [readable, size]
  port, filePath, debug, autoTunnel,
  fileName, urlPath,
  fileSize,      \* -1 until statSync has set it
  listening,     \* Bun.serve has bound the port
  clientMap,     \* key -> [ip, ua, count]
  requestLog,    \* the lines logRequest printed: [ip, ua, count]
  lastSocket,    \* the socket the request handled last came through
  lastPathname,  \* url.pathname of the request handled last
  lastResponse,  \* the Response fetch returned for it
  requestsLeft,  \* requests the clients still send
  tpc,           \* setupCloudFlareTunnel: "idle", "asking", "probing",
                 \* "declined", "running", "finished"
  probe,         \* how "cloudflared --version" ended: [threw, code]
  tunnelUrl,     \* the value setupCloudFlareTunnel awaited
  printed,       \* the public address printed for sharing, Null if none
  qrContent,     \* the text encoded in the QR code, Null if none
  wantsTunnel,   \* wantsTunnel of setupCloudFlareTunnel
  proc,          \* the tunnel subprocess: [state, killed, code]
  pipe,          \* per stream, the chunks written and not yet read
  rd,            \* per stream, the reader: "idle", "reading", "returned",
                 \* "done", "failed"
  output,        \* the buffer both readers append to
  urlFound,
  promise,       \* the promise runCloudFlaredTunnel returns
  resolvedBy,    \* which resolve call settled it
  timer,         \* the 30 s timer: "unset", "armed", "fired"
  killCalls,     \* calls of proc.kill()
  console,       \* the messages of console.error
  writesLeft,    \* chunks the subprocess still writes
  script         \* the writes of a subprocess whose output is fixed in
                 \* advance, and the URL it announces; with no writes
                 \* fixed the subprocess writes any chunks

hostVars ==
  << pc, exitCode, args, rand, port, filePath, debug, autoTunnel,
     fileName, urlPath, fileSize, listening >>
serverVars ==
  << clientMap, requestLog, lastSocket, lastPathname, lastResponse,
     requestsLeft >>
setupVars == << tpc, probe, tunnelUrl, printed, qrContent, wantsTunnel >>
tunnelVars ==
  << proc, pipe, rd, output, urlFound, promise, resolvedBy, timer,
     killCalls, console, writesLeft, script >>
vars == << hostVars, disk, serverVars, setupVars, tunnelVars >>

Unsettled == [settled |-> FALSE, value |-> Null]

\* How the probe "cloudflared --version" can end: Bun.spawn throws, or the
\* subprocess exits with a code.
NoProbe == [threw |-> FALSE, code |-> -1]
ProbeResults ==
  { [threw |-> TRUE, code |-> -1] }
    \cup { [threw |-> FALSE, code |-> c] : c \in ExitCodes }

\* A probe that takes any exit of the subprocess for an installation.
IsInstalledOnAnyExit(r) == ~r.threw

\* Lines 134-154: checkCloudFlaredInstalled.
IsInstalled(r) == ~r.threw /\ r.code = 0

\* A promise whose every resolve call overwrites the value.
ResolveOverwriting(p, v) == [settled |-> TRUE, value |-> v]

\* resolve(v) of a promise: the first call settles it, later calls do
\* nothing.
Resolve(p, v) == IF p.settled THEN p ELSE [settled |-> TRUE, value |-> v]

Denominator == Pow2(RandBits)

\* The state of the process before its first statement, for a command
\* line, a value of Math.random() and a file on disk.
AnyOutput == [writes |-> << >>, url |-> << >>]

Start(a, r, file, requests, writes, sc) ==
  /\ pc = "start" /\ exitCode = -1
  /\ args = a /\ rand = r /\ disk = file
  /\ port = DefaultPort /\ filePath = << >>
  /\ debug = FALSE /\ autoTunnel = FALSE
  /\ fileName = << >> /\ urlPath = << >> /\ fileSize = -1
  /\ listening = FALSE
  /\ clientMap = [k \in {} |-> 0] /\ requestLog = << >>
  /\ lastSocket = NoSocket
  /\ lastPathname = << >> /\ lastResponse = NoResponse
  /\ requestsLeft = requests
  /\ tpc = "idle" /\ probe = NoProbe
  /\ tunnelUrl = Null /\ printed = Null /\ qrContent = Null
  /\ wantsTunnel = FALSE
  /\ proc = [state |-> "none", killed |-> FALSE, code |-> -1]
  /\ pipe = [s \in Streams |-> << >>]
  /\ rd = [s \in Streams |-> "idle"]
  /\ output = << >> /\ urlFound = FALSE
  /\ promise = Unsettled /\ resolvedBy = "none"
  /\ timer = "unset" /\ killCalls = 0 /\ console = << >>
  /\ writesLeft = writes /\ script = sc

\* The file on disk: missing (or unreadable), or readable with a size.
MissingFile == [readable |-> FALSE, size |-> 0]
Files ==
  { MissingFile } \cup { [readable |-> TRUE, size |-> n] : n \in 0..MaxFileSize }

\* Values of Math.random() giving a token of 0 and of 5 characters.
FewRands == { 0, 1 }

\* ------------------------------------------------------------------------
\* Startup (top level of the script)
\* ------------------------------------------------------------------------

\* Lines 36-103.
ParseCommandLine ==
  /\ pc = "start"
  /\ LET st == ParseArgs(args) IN
       /\ pc' = IF st.exit # -1 THEN "exited" ELSE "parsed"
       /\ exitCode' = st.exit
       /\ port' = st.port
       /\ filePath' = st.filePath
       /\ debug' = st.debug
       /\ autoTunnel' = st.autoTunnel
  /\ UNCHANGED << args, rand, fileName, urlPath, fileSize, listening, disk,
                  serverVars, setupVars, tunnelVars >>

\* statSync(filePath) succeeds on the served file while it is readable.
StatOk == filePath = ServedPath /\ disk.readable

\* Lines 105-114: the base name, the token, the size.
StatFile ==
  /\ pc = "parsed"
  /\ fileName' = Basename(filePath)
  /\ urlPath' = GenerateUrlPath(rand, Denominator)
  /\ IF StatOk
       THEN /\ fileSize' = disk.size
            /\ pc' = "statted"
            /\ UNCHANGED exitCode
       ELSE /\ pc' = "exited"
            /\ exitCode' = 1
            /\ UNCHANGED fileSize
  /\ UNCHANGED << args, rand, port, filePath, debug, autoTunnel, listening,
                  disk, serverVars, setupVars, tunnelVars >>

ValidPort(p) == p \in 0..65535

\* What Bun.serve does with the port it is given (TRUE: it binds and
\* listens, FALSE: it throws and the script ends). The script hands over
\* whatever number passed line 59, so with a number that is no port the
\* outcome is the runtime's: it throws, or it listens on a port of its
\* own choosing.
ServeOutcomes(p) == IF ValidPort(p) THEN { TRUE } ELSE BOOLEAN

\* Lines 356-504: Bun.serve.
StartServer ==
  /\ pc = "statted"
  /\ \E binds \in ServeOutcomes(port) :
       IF binds
         THEN /\ pc' = "bound"
              /\ listening' = TRUE
              /\ UNCHANGED exitCode
         ELSE /\ pc' = "exited"
              /\ exitCode' = 1
              /\ UNCHANGED listening
  /\ UNCHANGED << args, rand, port, filePath, debug, autoTunnel, fileName,
                  urlPath, fileSize, disk, serverVars, setupVars,
                  tunnelVars >>

\* A script that starts the tunnel setup without a server.
CallSetupUnbound ==
  /\ pc = "statted"
  /\ pc' = "serving"
  /\ tpc' = IF autoTunnel THEN "probing" ELSE "asking"
  /\ wantsTunnel' = autoTunnel
  /\ UNCHANGED << exitCode, args, rand, port, filePath, debug, autoTunnel,
                  fileName, urlPath, fileSize, listening, disk, serverVars,
                  probe, tunnelUrl, printed, qrContent, tunnelVars >>

\* Lines 506-513: the address is printed and setupCloudFlareTunnel is
\* called; it runs up to its first await, the prompt (line 299) or the
\* probe (line 308).
CallSetup ==
  /\ pc = "bound"
  /\ pc' = "serving"
  /\ tpc' = IF autoTunnel THEN "probing" ELSE "asking"
  /\ wantsTunnel' = autoTunnel
  /\ UNCHANGED << exitCode, args, rand, port, filePath, debug, autoTunnel,
                  fileName, urlPath, fileSize, listening, disk, serverVars,
                  probe, tunnelUrl, printed, qrContent, tunnelVars >>

\* ------------------------------------------------------------------------
\* The file changes on disk while the server runs
\* ------------------------------------------------------------------------

FileChanges ==
  /\ pc = "serving"
  /\ \E f \in Files : f # disk /\ disk' = f
  /\ UNCHANGED << hostVars, serverVars, setupVars, tunnelVars >>

\* ------------------------------------------------------------------------
\* The server
\* ------------------------------------------------------------------------

\* Lines 338-353: logRequest.
LogRequest(ip, ua) ==
  LET info == NextInfo(clientMap, ip, ua) IN
  /\ clientMap' = MapSet(clientMap, ClientKey(ip, ua), info)
  /\ requestLog' =
       Append(requestLog, [ip |-> ip, ua |-> ua, count |-> info.count])

\* A handler that writes the user agent into the buffer of the readers.
HandleRequestIntoBuffer ==
  /\ pc = "serving" /\ listening
  /\ requestsLeft > 0
  /\ requestsLeft' = requestsLeft - 1
  /\ \E sock \in Sockets,
        ua \in { RequestUA(header) : header \in UserAgents },
        pathname \in { Pathname(raw) : raw \in Targets(urlPath) } :
       /\ LogRequest(RequestIP(sock), ua)
       /\ lastSocket' = sock
       /\ lastPathname' = pathname
       /\ lastResponse' =
            Respond(pathname, urlPath, fileName, fileSize, disk)
       /\ output' = output \o ua
  /\ UNCHANGED << hostVars, disk, setupVars, proc, pipe, rd, urlFound,
                  promise, resolvedBy, timer, killCalls, console,
                  writesLeft, script >>

\* Lines 358-503: fetch. It has no await: a request is handled in one step.
HandleRequest ==
  /\ pc = "serving" /\ listening
  /\ requestsLeft > 0
  /\ requestsLeft' = requestsLeft - 1
  /\ \E sock \in Sockets,
        ua \in { RequestUA(header) : header \in UserAgents },
        pathname \in { Pathname(raw) : raw \in Targets(urlPath) } :
       /\ LogRequest(RequestIP(sock), ua)
       /\ lastSocket' = sock
       /\ lastPathname' = pathname
       /\ lastResponse' =
            Respond(pathname, urlPath, fileName, fileSize, disk)
  /\ UNCHANGED << hostVars, disk, setupVars, tunnelVars >>

\* ------------------------------------------------------------------------
\* setupCloudFlareTunnel (lines 290-333)
\* ------------------------------------------------------------------------

\* Line 131: answer.toLowerCase().startsWith("y").
StartsWithY(answer) == answer # << >> /\ answer[1] \in { "y", "Y" }

\* Lines typed at the prompt.
Answers ==
  { << "y" >>, << "Y","E","S" >>, << "n" >>, << "o","k","a","y" >>, << >> }

\* A prompt whose answer is not looked at: the probe runs in any case.
AnswerPromptIgnored ==
  /\ pc = "serving" /\ tpc = "asking"
  /\ \E answer \in Answers :
       /\ wantsTunnel' = StartsWithY(answer)
       /\ tpc' = "probing"
  /\ UNCHANGED << hostVars, disk, serverVars, probe, tunnelUrl, printed,
                  qrContent, tunnelVars >>

\* Line 299-306: the answer to the prompt.
AnswerPrompt ==
  /\ pc = "serving" /\ tpc = "asking"
  /\ \E answer \in Answers :
       /\ wantsTunnel' = StartsWithY(answer)
       /\ tpc' = IF StartsWithY(answer) THEN "probing" ELSE "declined"
  /\ UNCHANGED << hostVars, disk, serverVars, probe, tunnelUrl, printed,
                  qrContent,
                  tunnelVars >>

\* Lines 308-312: the probe says cloudflared is missing.
ProbeFails ==
  /\ pc = "serving" /\ tpc = "probing"
  /\ \E r \in ProbeResults : ~IsInstalled(r) /\ probe' = r
  /\ pc' = "exited" /\ exitCode' = 1 /\ listening' = FALSE
  /\ UNCHANGED << args, rand, port, filePath, debug, autoTunnel, fileName,
                  urlPath, fileSize, disk, serverVars, tpc, tunnelUrl,
                  printed, qrContent, wantsTunnel, tunnelVars >>

\* Lines 308-315 and 184-282: the probe succeeds and runCloudFlaredTunnel
\* spawns the subprocess, starts both readers, arms the timer and
\* registers the exit handler.
SpawnTunnel ==
  /\ pc = "serving" /\ tpc = "probing"
  /\ \E r \in ProbeResults : IsInstalled(r) /\ probe' = r
  /\ tpc' = "running"
  /\ proc' = [state |-> "running", killed |-> FALSE, code |-> -1]
  /\ rd' = [s \in Streams |-> "reading"]
  /\ timer' = "armed"
  /\ UNCHANGED << hostVars, disk, serverVars, tunnelUrl, printed, qrContent,
                  wantsTunnel, pipe,
                  output, urlFound, promise, resolvedBy, killCalls, console,
                  writesLeft, script >>

\* Lines 283-287: Bun.spawn throws and runCloudFlaredTunnel returns null.
SpawnFails ==
  /\ pc = "serving" /\ tpc = "probing"
  /\ \E r \in ProbeResults : IsInstalled(r) /\ probe' = r
  /\ tpc' = "running"
  /\ promise' = Resolve(promise, Null)
  /\ resolvedBy' = "catch"
  /\ console' = Append(console, "Failed to start CloudFlare tunnel")
  /\ UNCHANGED << hostVars, disk, serverVars, tunnelUrl, printed, qrContent,
                  wantsTunnel, proc, pipe,
                  rd, output, urlFound, timer, killCalls, writesLeft, script >>

\* A setup that ends the process when no tunnel URL was found.
TunnelReturnsExiting ==
  /\ pc = "serving" /\ tpc = "running"
  /\ promise.settled
  /\ tpc' = "finished"
  /\ tunnelUrl' = promise.value
  /\ printed' = IF promise.value.isNull THEN Null
                ELSE Str(promise.value.str \o << "/" >> \o urlPath)
  /\ qrContent' = promise.value
  /\ pc' = IF promise.value.isNull THEN "exited" ELSE pc
  /\ exitCode' = IF promise.value.isNull THEN 1 ELSE exitCode
  /\ listening' = ~promise.value.isNull
  /\ UNCHANGED << args, rand, port, filePath, debug, autoTunnel, fileName,
                  urlPath, fileSize, disk, serverVars, probe, wantsTunnel,
                  tunnelVars >>

\* Lines 315-332: the await returns; a URL is printed with the token.
TunnelReturns ==
  /\ pc = "serving" /\ tpc = "running"
  /\ promise.settled
  /\ tpc' = "finished"
  /\ tunnelUrl' = promise.value
  /\ printed' = IF promise.value.isNull THEN Null
                ELSE Str(promise.value.str \o << "/" >> \o urlPath)
  /\ qrContent' = promise.value
  /\ UNCHANGED << hostVars, disk, serverVars, probe, wantsTunnel, tunnelVars >>

\* ------------------------------------------------------------------------
\* runCloudFlaredTunnel: subprocess, readers, timer, exit handler
\* ------------------------------------------------------------------------

\* The subprocess writes a chunk on one of its streams.
ProcWrites ==
  /\ pc = "serving" /\ proc.state = "running"
  /\ writesLeft > 0
  /\ writesLeft' = writesLeft - 1
  /\ IF script.writes = << >>
       THEN \E s \in Streams, c \in Chunks :
              pipe' = [pipe EXCEPT ![s] = Append(@, c)]
       ELSE LET w == script.writes[Len(script.writes) - writesLeft + 1] IN
              pipe' = [pipe EXCEPT ![w.stream] = Append(@, w.chunk)]
  /\ UNCHANGED << hostVars, disk, serverVars, setupVars, proc, rd, output,
                  urlFound, promise, resolvedBy, timer, killCalls, console,
                  script >>

\* A reader that matches each chunk alone instead of the buffer.
ReadChunkAlone(s) ==
  /\ pc = "serving" /\ rd[s] = "reading"
  /\ pipe[s] # << >>
  /\ pipe' = [pipe EXCEPT ![s] = Tail(@)]
  /\ output' = output \o Head(pipe[s])
  /\ LET urlMatch == UrlMatch(Head(pipe[s])) IN
       IF ~urlMatch.isNull /\ ~urlFound
         THEN /\ urlFound' = TRUE
              /\ promise' = Resolve(promise, urlMatch)
              /\ resolvedBy' = IF promise.settled THEN resolvedBy ELSE "reader"
              /\ rd' = [rd EXCEPT ![s] = "returned"]
         ELSE UNCHANGED << urlFound, promise, resolvedBy, rd >>
  /\ UNCHANGED << hostVars, disk, serverVars, setupVars, proc, timer,
                  killCalls, console, writesLeft, script >>

\* One turn of a reader's loop (lines 205-222, 234-251): the chunk is
\* appended to the shared buffer, the buffer is matched, and the first
\* match found while urlFound is false resolves and ends the reader.
ReadChunk(s) ==
  /\ pc = "serving" /\ rd[s] = "reading"
  /\ pipe[s] # << >>
  /\ pipe' = [pipe EXCEPT ![s] = Tail(@)]
  /\ output' = output \o Head(pipe[s])
  /\ LET urlMatch == UrlMatch(output \o Head(pipe[s])) IN
       IF ~urlMatch.isNull /\ ~urlFound
         THEN /\ urlFound' = TRUE
              /\ promise' = Resolve(promise, urlMatch)
              /\ resolvedBy' = IF promise.settled THEN resolvedBy ELSE "reader"
              /\ rd' = [rd EXCEPT ![s] = "returned"]
         ELSE UNCHANGED << urlFound, promise, resolvedBy, rd >>
  /\ UNCHANGED << hostVars, disk, serverVars, setupVars, proc, timer,
                  killCalls, console, writesLeft, script >>

\* Lines 202-227.
ReadStdout == ReadChunk("stdout")

\* Lines 231-256.
ReadStderr == ReadChunk("stderr")

\* Lines 206, 235: the stream has ended (done), the loop breaks.
StreamEnds ==
  /\ pc = "serving" /\ proc.state = "exited"
  /\ \E s \in Streams :
       /\ rd[s] = "reading" /\ pipe[s] = << >>
       /\ rd' = [rd EXCEPT ![s] = "done"]
  /\ UNCHANGED << hostVars, disk, serverVars, setupVars, proc, pipe, output,
                  urlFound, promise, resolvedBy, timer, killCalls, console,
                  writesLeft, script >>

\* A read error that ends both readers.
ReadFailsBoth ==
  /\ pc = "serving"
  /\ \E s \in Streams :
       /\ rd[s] = "reading"
       /\ rd' = [t \in Streams |-> "failed"]
  /\ UNCHANGED << hostVars, disk, serverVars, setupVars, proc, pipe, output,
                  urlFound, promise, resolvedBy, timer, killCalls, console,
                  writesLeft, script >>

\* Lines 224-226, 253-255: read() rejects, the reader's catch ends it.
ReadFails ==
  /\ pc = "serving"
  /\ \E s \in Streams :
       /\ rd[s] = "reading"
       /\ rd' = [rd EXCEPT ![s] = "failed"]
  /\ UNCHANGED << hostVars, disk, serverVars, setupVars, proc, pipe, output,
                  urlFound, promise, resolvedBy, timer, killCalls, console,
                  writesLeft, script >>

\* A timer that ends the subprocess and leaves the promise alone.
TimeoutCallbackNoResolve ==
  /\ pc = "serving" /\ timer = "armed"
  /\ timer' = "fired"
  /\ IF ~urlFound
       THEN /\ console' =
                 Append(console, "Timeout waiting for CloudFlare tunnel URL")
            /\ killCalls' = killCalls + 1
            /\ proc' = IF proc.state = "running"
                         THEN [proc EXCEPT !.killed = TRUE] ELSE proc
       ELSE UNCHANGED << console, killCalls, proc >>
  /\ UNCHANGED << hostVars, disk, serverVars, setupVars, pipe, rd, output,
                  urlFound, promise, resolvedBy, writesLeft, script >>

\* A timer that resolves without ending the subprocess.
TimeoutCallbackNoKill ==
  /\ pc = "serving" /\ timer = "armed"
  /\ timer' = "fired"
  /\ IF ~urlFound
       THEN /\ console' =
                 Append(console, "Timeout waiting for CloudFlare tunnel URL")
            /\ promise' = Resolve(promise, Null)
            /\ resolvedBy' = IF promise.settled THEN resolvedBy ELSE "timer"
       ELSE UNCHANGED << console, promise, resolvedBy >>
  /\ UNCHANGED << hostVars, disk, serverVars, setupVars, pipe, rd, output,
                  urlFound, writesLeft, script, killCalls, proc >>

\* Lines 263-270: the timer fires.
TimeoutCallback ==
  /\ pc = "serving" /\ timer = "armed"
  /\ timer' = "fired"
  /\ IF ~urlFound
       THEN /\ console' =
                 Append(console, "Timeout waiting for CloudFlare tunnel URL")
            /\ killCalls' = killCalls + 1
            /\ proc' = IF proc.state = "running"
                         THEN [proc EXCEPT !.killed = TRUE] ELSE proc
            /\ promise' = Resolve(promise, Null)
            /\ resolvedBy' = IF promise.settled THEN resolvedBy ELSE "timer"
       ELSE UNCHANGED << console, killCalls, proc, promise, resolvedBy >>
  /\ UNCHANGED << hostVars, disk, serverVars, setupVars, pipe, rd, output,
                  urlFound, writesLeft, script >>

\* An exit handler that reports the exit and does not resolve.
ExitHandlerNoResolve ==
  /\ pc = "serving" /\ proc.state = "running"
  /\ \E code \in (IF proc.killed THEN KilledCodes ELSE ExitCodes) :
       proc' = [proc EXCEPT !.state = "exited", !.code = code]
  /\ IF ~urlFound
       THEN console' =
              Append(console, "CloudFlare tunnel process exited unexpectedly")
       ELSE UNCHANGED console
  /\ UNCHANGED << hostVars, disk, serverVars, setupVars, pipe, rd, output,
                  urlFound, timer, killCalls, writesLeft, script, promise,
                  resolvedBy >>

\* Lines 273-281: the subprocess ends, on its own or by the signal of
\* proc.kill(), and the handler of proc.exited runs.
ExitHandler ==
  /\ pc = "serving" /\ proc.state = "running"
  /\ \E code \in (IF proc.killed THEN KilledCodes ELSE ExitCodes) :
       proc' = [proc EXCEPT !.state = "exited", !.code = code]
  /\ IF ~urlFound
       THEN /\ console' =
                 Append(console, "CloudFlare tunnel process exited unexpectedly")
            /\ promise' = Resolve(promise, Null)
            /\ resolvedBy' = IF promise.settled THEN resolvedBy ELSE "exit"
       ELSE UNCHANGED << console, promise, resolvedBy >>
  /\ UNCHANGED << hostVars, disk, serverVars, setupVars, pipe, rd, output,
                  urlFound, timer, killCalls, writesLeft, script >>

\* ------------------------------------------------------------------------
\* Specifications
\* ------------------------------------------------------------------------

StartupNext == ParseCommandLine \/ StatFile \/ StartServer \/ CallSetup

ServerNext == HandleRequest \/ FileChanges

SpawnNext == ProbeFails \/ SpawnTunnel \/ SpawnFails \/ TunnelReturns

SetupNext == AnswerPrompt \/ SpawnNext

TunnelNext ==
  \/ ProcWrites \/ ReadStdout \/ ReadStderr \/ StreamEnds \/ ReadFails
  \/ TimeoutCallback \/ ExitHandler

Next == StartupNext \/ ServerNext \/ SetupNext \/ TunnelNext

\* The whole program, for every command line, one request and a
\* subprocess that announces its URL in one chunk on stderr.
OneUrl ==
  [writes |-> << [stream |-> "stderr", chunk |-> UrlB] >>, url |-> UrlB]

Init == \E a \in ArgLists, f \in Files : Start(a, 1, f, 1, 1, OneUrl)

Spec == Init /\ [][Next]_vars

OneByteFile == [readable |-> TRUE, size |-> 1]

\* The tunnel discovery: the tunnel is asked for by --tunnel or at the
\* prompt, and the subprocess writes any chunks.
TunnelInit ==
  \E a \in { << << "--tunnel" >>, ServedPath >>, << ServedPath >> } :
    Start(a, 1, OneByteFile, 0, MaxWrites, AnyOutput)

TunnelSpec ==
  TunnelInit /\ [][StartupNext \/ SetupNext \/ TunnelNext]_vars

\* The tunnel discovery with a timer that fires: setTimeout runs its
\* callback once the 30 s are over. Nothing is assumed of the subprocess
\* and of the streams.
TimedTunnelSpec == TunnelSpec /\ WF_vars(TimeoutCallback)

\* The tunnel discovery for a subprocess that writes one URL, with text
\* around it, in two chunks on one stream: every URL, text and split.
FooBar == << "f","o","o","-","b","a","r" >>
SplitUrl == HttpsPrefix \o FooBar \o TryCloudflareSuffix
TextAround ==
  { << << >>, << >> >>, << HttpsPrefix \o << "x", " " >>, << "m", "/" >> >> }

SplitScripts ==
  { [writes |-> << [stream |-> s,
                    chunk |-> text[1] \o SubSeq(SplitUrl, 1, k)],
                   [stream |-> s,
                    chunk |-> SubSeq(SplitUrl, k + 1, Len(SplitUrl))
                                \o text[2]] >>,
     url |-> SplitUrl] :
      s \in Streams, k \in 1..(Len(SplitUrl) - 1), text \in TextAround }

SplitInit ==
  \E sc \in SplitScripts :
    Start(<< << "--tunnel" >>, ServedPath >>, 1, OneByteFile, 0,
          Len(sc.writes), sc)

SplitSpec ==
  SplitInit /\ [][StartupNext \/ SpawnNext \/ TunnelNext]_vars

\* The tunnel discovery for a subprocess that writes two chunks, each on
\* either stream: every pair of chunks and streams.
Writes == [stream : Streams, chunk : Chunks]
InterleavedScripts ==
  { [writes |-> << w1, w2 >>, url |-> << >>] : w1 \in Writes, w2 \in Writes }

InterleavedInit ==
  \E sc \in InterleavedScripts :
    Start(<< << "--tunnel" >>, ServedPath >>, 1, OneByteFile, 0,
          Len(sc.writes), sc)

InterleavedSpec ==
  InterleavedInit /\ [][StartupNext \/ SpawnNext \/ TunnelNext]_vars

\* The file server: the program started without --tunnel.
ServerInit ==
  \E r \in FewRands, f \in Files :
    Start(<< ServedPath >>, r, f, MaxRequests, 0, AnyOutput)

ServerSpec ==
  ServerInit /\ [][StartupNext \/ ServerNext \/ AnswerPrompt]_vars

\* The info page, for files of 0 to MaxSizeSteps thirty-seconds of a MB,
\* one byte less and one byte more, and of 10 MB: sizes that are a whole
\* number of hundredths of a MB, halfway between two, and next to these.
SizeStep == 1024 * 32
InfoSizes ==
  { n \in { k * SizeStep + d : k \in 0..MaxSizeSteps, d \in { -1, 0, 1 } } :
      n >= 0 }
    \cup { 10 * BytesPerMB }

InfoInit ==
  \E n \in InfoSizes :
    Start(<< ServedPath >>, 1, [readable |-> TRUE, size |-> n], 1, 0,
          AnyOutput)

InfoSpec ==
  InfoInit /\ [][StartupNext \/ ServerNext \/ AnswerPrompt]_vars

\* The token, for every value of Math.random().
TokenInit ==
  \E r \in 0..(Denominator - 1) :
    Start(<< ServedPath >>, r, OneByteFile, 0, 0, AnyOutput)

TokenSpec == TokenInit /\ [][StartupNext]_vars

\* ------------------------------------------------------------------------
\* Properties
\* ------------------------------------------------------------------------

InSeq(x, q) == \E i \in 1..Len(q) : q[i] = x

\* C1: the outcome of runCloudFlaredTunnel is produced once and never
\* changes: once the promise is settled, no later event (a match, the
\* timer, the exit) changes its value or which event settled it.
C1_OutcomeNeverChanges ==
  [][promise.settled => (promise' = promise /\ resolvedBy' = resolvedBy)]_vars

\* The timer settled the outcome, and later a reader found a URL and the
\* subprocess ended.
C1_Witness ==
  /\ promise.settled /\ resolvedBy = "timer"
  /\ urlFound /\ proc.state = "exited"

\* C2: a URL written in two chunks on one stream, once both chunks are in
\* the buffer and neither the timer nor the exit settled the outcome first,
\* has resolved the outcome with exactly that URL.
C2_SplitUrlResolved ==
  ( /\ Len(script.writes) = 2
    /\ output = script.writes[1].chunk \o script.writes[2].chunk
    /\ resolvedBy \notin { "timer", "exit", "catch" } )
  => (promise.settled /\ promise.value = Str(script.url))

\* The URL was split inside its label ("https://foo" and "-bar...") on
\* stderr, with text around it, and the outcome is the URL.
C2_Witness ==
  /\ Len(script.writes) = 2
  /\ script.writes[1].stream = "stderr"
  /\ script.writes[1].chunk = HttpsPrefix \o << "x", " " >> \o HttpsPrefix
                                \o << "f", "o", "o" >>
  /\ resolvedBy = "reader"
  /\ promise.value = Str(SplitUrl)

\* C3: when the timer has fired and neither a match nor the exit of the
\* subprocess settled the outcome before, the outcome is the timed-out one
\* (null) and proc.kill() was called.
C3_TimeoutResolvesAndKills ==
  (timer = "fired" /\ resolvedBy \notin { "reader", "exit", "catch" })
  => /\ promise.settled /\ promise.value = Null
     /\ resolvedBy = "timer"
     /\ killCalls >= 1
     /\ (proc.killed \/ proc.state = "exited")
     /\ InSeq("Timeout waiting for CloudFlare tunnel URL", console)

\* The timer settled the outcome of a subprocess that wrote nothing and
\* was still running.
C3_Witness ==
  /\ resolvedBy = "timer" /\ output = << >>
  /\ proc.state = "running" /\ proc.killed /\ killCalls = 1

\* C4 as stated: the outcome of a subprocess that ended before a match and
\* before the timer differs from the timed-out outcome, null (line 268).
C4_ExitOutcomeDistinct ==
  resolvedBy = "exit" => promise.value # Null

\* C4, amended: when the subprocess has ended and neither a match nor the
\* timer settled the outcome before, the outcome is settled by the exit
\* handler, with null, and the exit is reported on the console.
C4_ExitResolvesNull ==
  (proc.state = "exited" /\ resolvedBy \notin { "reader", "timer" })
  => /\ promise.settled /\ promise.value = Null
     /\ resolvedBy = "exit"
     /\ InSeq("CloudFlare tunnel process exited unexpectedly", console)

\* The exit settled the outcome and setupCloudFlareTunnel went on while
\* the timer had not fired yet.
C4_Witness ==
  /\ resolvedBy = "exit" /\ proc.code = 1
  /\ timer = "armed" /\ tpc = "finished" /\ tunnelUrl = Null

\* C5: proc.kill() is called only when the outcome is the timed-out one.
C5_KillOnlyOnTimeout ==
  killCalls > 0 => resolvedBy = "timer"

\* C6: a request whose pathname is neither of the two routes is answered
\* with 404 and none of the file; the file is the body only for the
\* pathname /download/{token}.
C6_OnlyExactRoutes ==
  lastResponse.route # "none" =>
    /\ lastPathname \notin { DownloadRoute(urlPath), InfoRoute(urlPath) }
         => /\ lastResponse.status = 404
            /\ lastResponse.body # "file"
            /\ lastResponse.fileBytes = 0
    /\ lastResponse.body = "file" => lastPathname = DownloadRoute(urlPath)

\* A path that continues the download route ("/download/{token}/") got
\* the 404 while the file was readable.
C6_Witness ==
  /\ lastPathname = << Download, urlPath, Empty >>
  /\ lastResponse.status = 404
  /\ urlPath # << >> /\ disk.readable

\* C7: the token has at least 5 characters, all of them alphanumeric.
C7_TokenAtLeastFive ==
  pc \in { "statted", "serving" } =>
    /\ Len(urlPath) >= 5
    /\ \A i \in 1..Len(urlPath) : urlPath[i] \in Alphanumeric

C9_ContentLengthIsBodyLength ==
  (lastResponse.body = "file" /\ lastResponse.fileReadable)
  => lastResponse.contentLength = lastResponse.fileBytes

C11_OneHitUnderAddressAndAgent ==
  lastResponse.route # "none" =>
    LET hit == requestLog[Len(requestLog)] IN
    /\ Len(requestLog) + requestsLeft = MaxRequests
    /\ hit.ip = IF lastSocket.present THEN lastSocket.address ELSE Unknown
    /\ hit.ua # << >>
    /\ ClientKey(hit.ip, hit.ua) \in DOMAIN clientMap

\* C12: with the file path missing, the file not stat'ed or a -p/--port
\* value that is no valid port, the server never listens, and the process
\* exits with a non-zero code (code 0 is for help and version only).
C12_BadInputNeverServes ==
  /\ listening =>
       (filePath # << >> /\ fileSize >= 0 /\ ValidPort(port))
  /\ (pc = "exited" /\ exitCode = 0) => ParseArgs(args).exit = 0

\* C13: when the tunnel discovery ended in null by the timer or by the
\* exit of the subprocess, the process has not exited, the server is
\* still listening and a request that comes now is handled, by the routes
\* of the token as before.
C13_ServerSurvivesNullTunnel ==
  (tpc = "finished" /\ tunnelUrl.isNull /\ resolvedBy \in { "timer", "exit" })
  => /\ pc = "serving" /\ exitCode = -1 /\ listening
     /\ requestsLeft > 0 => ENABLED HandleRequest
     /\ lastResponse.route # "none"
          => lastResponse.route = Route(lastPathname, urlPath)

\* The discovery timed out before any request came; the request is still
\* to be handled.
C13_Witness ==
  /\ tpc = "finished" /\ tunnelUrl.isNull
  /\ resolvedBy = "timer"
  /\ lastResponse.route = "none" /\ requestsLeft > 0

\* C14: the tunnel subprocess is spawned only after the probe has exited
\* with code 0; after a probe that exited with another code or could not
\* be spawned, the tunnel subprocess is never spawned (the process has
\* exited instead).
C14_SpawnOnlyAfterProbeOk ==
  /\ (proc.state # "none" \/ timer # "unset" \/ tpc \in { "running", "finished" })
       => (~probe.threw /\ probe.code = 0)
  /\ (probe.threw \/ probe.code > 0)
       => /\ proc.state = "none" /\ timer = "unset"
          /\ pc = "exited" /\ exitCode = 1

\* The subprocess runs, after a probe that exited with code 0.
C14_Witness ==
  /\ proc.state = "running"
  /\ ~probe.threw /\ probe.code = 0

\* The number a text of digits with a point before the last two stands
\* for, in hundredths; -1 for any other text.
DigitValue(c) == CHOOSE d \in 0..9 : DecimalDigits[d + 1] = c
RECURSIVE NumberValue(_)
NumberValue(digits) ==
  IF digits = << >> THEN 0
  ELSE 10 * NumberValue(SubSeq(digits, 1, Len(digits) - 1))
         + DigitValue(digits[Len(digits)])

Hundredths(text) ==
  LET n == Len(text)
      digits == SubSeq(text, 1, n - 3) \o SubSeq(text, n - 1, n) IN
  IF /\ n >= 4 /\ text[n - 2] = "."
     /\ \A i \in 1..Len(digits) :
          \E d \in 1..10 : DecimalDigits[d] = digits[i]
    THEN NumberValue(digits) ELSE -1

\* C15: a request to exactly /{token} is answered with an HTML response
\* (Content-Type text/html) holding the base name of the file and, before
\* " MB", the number of hundredths nearest to S / 1048576, S being the
\* size statSync gave at startup.
C15_InfoPageShowsNameAndSize ==
  (lastResponse.route # "none" /\ lastPathname = << urlPath >>) =>
    LET text == lastResponse.sizeText
        q == Hundredths(SubSeq(text, 1, Len(text) - 3)) IN
    /\ lastResponse.status = 200
    /\ lastResponse.body = "html"
    /\ lastResponse.contentType = "text/html"
    /\ lastResponse.fileName = << filePath[Len(filePath)] >>
    /\ Len(text) >= 7
    /\ SubSeq(text, Len(text) - 2, Len(text)) = << " ","M","B" >>
    /\ q >= 0
    /\ 2 * (q * 1048576 - 100 * fileSize) <= 1048576
    /\ 2 * (100 * fileSize - q * 1048576) <= 1048576

\* The page of a file of 131072 bytes, an eighth of a MB, says 0.13 MB.
C15_Witness ==
  /\ lastPathname = << urlPath >>
  /\ fileSize = 131072
  /\ lastResponse.sizeText = << "0",".","1","3"," ","M","B" >>
  /\ lastResponse.fileName = << "file.zip" >>

\* C16: once the promise of runCloudFlaredTunnel is settled, the handlers
\* of the other kinds do nothing more when their event comes: no message
\* is reported, the subprocess is not killed and no reader claims the URL.
C16_NoWorkAfterOutcome ==
  [][promise.settled =>
       /\ console' = console
       /\ killCalls' = killCalls
       /\ urlFound' = urlFound]_vars

\* C17: both streams are read for as long as the subprocess writes to
\* them: a chunk written on a stream whose reader has met no read error
\* has a reader that is still reading that stream, also when the URL has
\* already been found (without one the chunk can never be consumed).
C17_EveryChunkHasAReader ==
  \A s \in Streams :
    (pipe[s] # << >> /\ rd[s] # "failed") => rd[s] = "reading"

\* C18: requests of different clients (another remote address or another
\* User-Agent) are counted in separate records. Stated for the second
\* request the server handles: when it comes through a socket with another
\* address than the first, it is reported with count 1 and leaves the
\* record of the first request as it was.
C18_OtherAddressCountedApart ==
  [][(/\ Len(requestLog) = 1 /\ Len(requestLog') = 2
      /\ lastSocket' # lastSocket)
     => LET first == requestLog[1]
            key == ClientKey(first.ip, first.ua) IN
        /\ requestLog'[2].count = 1
        /\ clientMap'[key] = clientMap[key]]_vars

\* C19: a read error of one reader stays in that reader. The step in
\* which a reader fails changes nothing else (the other reader, the timer,
\* the subprocess, the promise and the process are as before), and while
\* a reader has failed the other one still reads the chunks of its stream
\* and the timer and the exit handler still act.
C19_ReadErrorStaysInReader ==
  /\ [][\A s \in Streams :
          (rd[s] = "reading" /\ rd'[s] = "failed")
          => /\ \A t \in Streams \ { s } : rd'[t] = rd[t]
             /\ pc' = "serving"
             /\ << proc, timer, promise, urlFound, pipe, output >>'
                  = << proc, timer, promise, urlFound, pipe, output >>]_vars
  /\ [](\A s \in Streams :
          rd[s] = "failed"
          => /\ \A t \in Streams \ { s } :
                  (rd[t] = "reading" /\ pipe[t] # << >>)
                  => ENABLED ReadChunk(t)
             /\ timer = "armed" => ENABLED TimeoutCallback
             /\ proc.state = "running" => ENABLED ExitHandler)

\* The reader of stdout has failed, and the reader of stderr has put the
\* two halves of the URL together and resolved the promise with it.
C19_Witness ==
  /\ rd["stdout"] = "failed"
  /\ rd["stderr"] = "returned"
  /\ resolvedBy = "reader" /\ promise.value = Str(SplitUrl)

\* C20: the server is listening before the tunnel probe or the tunnel
\* subprocess is started: whenever the tunnel setup has been entered, the
\* probe has ended or the subprocess has been spawned, either the server
\* is bound to the port or the process has exited.
C20_ListeningBeforeTunnel ==
  (tpc # "idle" \/ probe # NoProbe \/ proc.state # "none" \/ timer # "unset")
  => (listening \/ pc = "exited")

\* The tunnel subprocess runs, and the server is listening.
C20_Witness ==
  /\ proc.state = "running" /\ tpc = "running"
  /\ listening /\ pc = "serving"

\* C21: a failed probe ends the process, and the server with it, only
\* when the user asked for the tunnel (by --tunnel or by a yes at the
\* prompt); when the user did not ask for one, the probe is not run and
\* the tunnel setup never ends the process.
C21_ProbeFatalOnlyOnRequest ==
  /\ probe # NoProbe => wantsTunnel
  /\ (pc = "exited" /\ tpc # "idle")
       => /\ wantsTunnel
          /\ (probe.threw \/ probe.code > 0)
          /\ exitCode = 1 /\ ~listening
  /\ (tpc # "idle" /\ ~wantsTunnel)
       => /\ tpc \in { "asking", "declined" } /\ ~autoTunnel
          /\ probe = NoProbe /\ proc.state = "none"
          /\ pc = "serving" /\ listening

\* The user answered yes at the prompt, the probe found no cloudflared
\* and the process has exited.
C21_Witness ==
  /\ ~autoTunnel /\ wantsTunnel
  /\ probe.threw
  /\ pc = "exited" /\ exitCode = 1

\* C22: the server and the tunnel discovery share no state. A step that
\* handles a request leaves the buffer, urlFound, the promise and the rest
\* of the tunnel state as they were, and a step of the tunnel discovery (a
\* write, a read, a match, the timeout, the exit) leaves the client map,
\* the token, the file name and the file size as they were.
C22_NoSharedState ==
  [][/\ requestLog' # requestLog
          => UNCHANGED << output, urlFound, promise, resolvedBy, pipe, rd,
                          proc, timer, killCalls, console, tunnelUrl >>
     /\ << pipe, rd, output, urlFound, promise, timer, proc >>'
          # << pipe, rd, output, urlFound, promise, timer, proc >>
          => UNCHANGED << clientMap, requestLog, urlPath, fileName,
                          fileSize, filePath, lastResponse >>]_vars

\* A request has been counted and the readers have found the URL.
C22_Witness ==
  /\ Len(requestLog) = 1 /\ DOMAIN clientMap # {}
  /\ urlFound /\ output = UrlB
  /\ promise.value = Str(UrlB)

\* The text the subprocess has written on a stream so far, for a
\* subprocess whose writes are fixed in advance.
RECURSIVE TextOf(_, _, _)
TextOf(writes, n, s) ==
  IF n = 0 THEN << >>
  ELSE TextOf(writes, n - 1, s)
         \o (IF writes[n].stream = s THEN writes[n].chunk ELSE << >>)

StreamText(s) == TextOf(script.writes, Len(script.writes) - writesLeft, s)

Contains(text, part) ==
  \E i \in 0..(Len(text) - Len(part)) :
    SubSeq(text, i + 1, i + Len(part)) = part

\* C23: a URL runCloudFlaredTunnel resolves with is a piece of the text
\* the subprocess wrote on one stream, stdout alone or stderr alone.
C23_UrlWrittenOnOneStream ==
  (promise.settled /\ ~promise.value.isNull)
  => \E s \in Streams : Contains(StreamText(s), promise.value.str)

\* C24: every call of runCloudFlaredTunnel ends with an outcome, whatever
\* the subprocess does (it writes nothing, writes without a match, never
\* exits, exits at any time, cannot be spawned), provided the timer
\* fires.
C24_TunnelAlwaysResolves == (tpc = "running") ~> promise.settled

\* The timer gave the outcome of a subprocess that wrote nothing and is
\* still running.
C24_Witness ==
  /\ promise.settled /\ resolvedBy = "timer"
  /\ writesLeft = MaxWrites /\ output = << >>
  /\ proc.state = "running"

\* The pathname a client requests when it opens an address
\* "https://host/a/b": the segments after the host, as the URL parser
\* leaves them.
FirstSlash(chars) ==
  IF \E i \in 1..Len(chars) : chars[i] = "/"
    THEN Min({ i \in 1..Len(chars) : chars[i] = "/" }) ELSE 0

RECURSIVE SplitSlash(_)
SplitSlash(chars) ==
  LET i == FirstSlash(chars) IN
  IF i = 0 THEN << chars >>
  ELSE << SubSeq(chars, 1, i - 1) >>
         \o SplitSlash(SubSeq(chars, i + 1, Len(chars)))

AddressPathname(address) ==
  LET rest == SubSeq(address, Len(HttpsPrefix) + 1, Len(address))
      i == FirstSlash(rest) IN
  IF i = 0 THEN Pathname(<< Empty >>)
  ELSE Pathname(SplitSlash(SubSeq(rest, i + 1, Len(rest))))

\* C25: once the tunnel has given its URL, the address printed for
\* sharing and the address in the QR code both have a path the server
\* answers with the info page or the download, not with the 404.
C25_SharedAddressesAreServed ==
  (tpc = "finished" /\ ~tunnelUrl.isNull)
  => \A shown \in { printed, qrContent } :
       /\ ~shown.isNull
       /\ Route(AddressPathname(shown.str), urlPath) \in { "info", "download" }

====
